---------------------------- MODULE Spec2Model ----------------------------
(***************************************************************************)
(* Lap-position comparison of the F1 dashboard (src/app/visualizer.py).    *)
(*                                                                         *)
(* A location DataFrame is a sequence of rows [date, x, y] in the order    *)
(* the fetch layer returned them.  Row labels after reset_index(drop=True) *)
(* are 0..n-1 in the source and 1..n here, so "index 0" of the source is   *)
(* position 1 of a sequence.                                               *)
(*                                                                         *)
(* Numbers.  Dates are whole seconds, so (date - date.min()).total_seconds *)
(* is the integer difference.  Coordinates are drawn from a set of points  *)
(* whose pairwise Euclidean distances are integers, so np.sqrt is exact.   *)
(* distance_pct = distance / max * 100 is kept as the exact fraction       *)
(* [n |-> 100 * distance, d |-> max]; fractions are compared by cross      *)
(* multiplication.  Every sample of a comparison has a date and both        *)
(* coordinates.                                                            *)
(*                                                                         *)
(* plot_lap_comparison_on_track is followed through the call of            *)
(* calculate_time_delta_by_position and the normalization of the combined  *)
(* frame.  The figure is represented by the two annotated frames; the      *)
(* frames its traces are drawn from (scaled to the SVG view box and split  *)
(* by driver) are the functions d1_plot and d2_plot of them, and the       *)
(* traces added to the figure are the function Traces of those and of the  *)
(* colour map.                                                             *)
(*                                                                         *)
(* normalize_coordinates (same file), fetch_location_for_lap and           *)
(* fetch_data (src/app/data_loader.py) each have a specification of their  *)
(* own, and so has a caller that calls the operations repeatedly on the    *)
(* frames it holds; the variables of a component that a specification does *)
(* not call stay at their idle values.                                     *)
(***************************************************************************)
EXTENDS Integers, Sequences, FiniteSets, TLC

\* ------------------------------------------------------------- bounds
\* Longest location frame of the first / second driver of the dictionary.
MaxLen == 3
MaxLenOther == 2
\* Dates range over 0..MaxDate seconds.
MaxDate == 2
\* Longest frame in the identical-paths scenario.
MaxLenIdentical == 3

\* ------------------------------------------------------------- inputs
Dates == 0..MaxDate
\* Corners of a 3-4-5 triangle: every pairwise distance is 0, 3, 4 or 5.
Points == {<<0, 0>>, <<3, 0>>, <<3, 4>>}
Samples == {[date |-> t, x |-> p[1], y |-> p[2]] : t \in Dates, p \in Points}
Frames(n) == UNION {[1..k -> Samples] : k \in 0..n}

\* The two drivers picked in the comparison panel.
DriverA == "VER"
DriverB == "HAM"

\* sort_values(kind='quicksort') is not a stable sort: rows with equal dates
\* come out in an order the build decides.  "input" keeps their input order,
\* "reversed" reverses it; one build always makes the same choice.
TieOrders == {"input", "reversed"}

\* The comparison: the dictionary and view box main.py passes, the build's
\* tie order, and what each call returned.
VARIABLES location_data_dict, svg_viewbox, tie_order, fig, fig_swapped
\* The lap window resolver: the lap-timing table, the requested lap and
\* what fetch_location_for_lap did and returned.
VARIABLES lap_data, lap_request, lap_result
\* The coordinate normalizer: its argument, its result, and the result of
\* normalizing the normalized coordinates once more.
VARIABLES location_df, normalized, renormalized

\* A caller that keeps its frames and calls the operations on them again
\* and again: what each call was given, left behind and returned.
VARIABLES calls

\* fetch_data: the module's BASE_URL, the argument max_retries, the loop
\* variable, the responses the server has given to the requests sent so
\* far, the messages shown, and where the call stands.
VARIABLES BASE_URL, max_retries, attempt, responses, messages, fetched

plot_vars == <<location_data_dict, svg_viewbox, tie_order, fig, fig_swapped>>
resolver_vars == <<lap_data, lap_request, lap_result>>
normalizer_vars == <<location_df, normalized, renormalized>>
caller_vars == <<calls>>
fetch_vars == <<BASE_URL, max_retries, attempt, responses, messages, fetched>>
vars == <<plot_vars, resolver_vars, normalizer_vars, caller_vars, fetch_vars>>

\* A component that is not called in a behaviour keeps these values.
NotCalled == "not called"
PlotIdle ==
    /\ location_data_dict = <<>>
    /\ svg_viewbox = <<0, 0, 0, 0>>
    /\ tie_order = "input"
    /\ fig = NotCalled
    /\ fig_swapped = NotCalled
ResolverIdle ==
    /\ lap_data = <<>>
    /\ lap_request = NotCalled
    /\ lap_result = NotCalled
NormalizerIdle ==
    /\ location_df = <<>>
    /\ normalized = NotCalled
    /\ renormalized = NotCalled

CallerIdle == calls = <<>>

FetchIdle ==
    /\ BASE_URL = NotCalled
    /\ max_retries = 0
    /\ attempt = 0
    /\ responses = <<>>
    /\ messages = <<>>
    /\ fetched = NotCalled

\* ------------------------------------------------------------- arithmetic
\* A column or frame holds its values: the sequence with every element
\* evaluated once.
Series(s) == SubSeq(s, 1, Len(s))

Abs(v) == IF v < 0 THEN -v ELSE v

\* np.sqrt on the perfect squares the inputs produce.
Sqrt(v) == CHOOSE r \in 0..v : r * r = v

SetMax(S) == CHOOSE m \in S : \A v \in S : v <= m
SetMin(S) == CHOOSE m \in S : \A v \in S : m <= v

\* Exact fractions n/d with d > 0.
Frac(n, d) == [n |-> n, d |-> d]
FracEq(a, b) == a.n * b.d = b.n * a.d
FracLt(a, b) == a.n * b.d < b.n * a.d
FracLe(a, b) == a.n * b.d <= b.n * a.d
\* |a - b|
FracAbsDiff(a, b) == Frac(Abs(a.n * b.d - b.n * a.d), a.d * b.d)

\* Series.idxmin(): a left-to-right scan that keeps the first minimum.
RECURSIVE IdxMinScan(_, _, _)
IdxMinScan(s, i, best) ==
    IF i > Len(s) THEN best
    ELSE IdxMinScan(s, i + 1, IF FracLt(s[i], s[best]) THEN i ELSE best)

IdxMinLast(s) ==
    CHOOSE i \in 1..Len(s) :
        /\ \A j \in 1..Len(s) : FracLe(s[i], s[j])
        /\ \A j \in (i + 1)..Len(s) : FracLt(s[i], s[j])

IdxMin(s) == IdxMinScan(s, 2, 1)

\* ------------------------------------------------------------- sorting
\* df.sort_values('date').copy().reset_index(drop=True)
SortValuesUnsorted(df, ties) == df

SortValues(df, ties) ==
    LET n == Len(df)
        Before(i, j) ==
            \/ df[i].date < df[j].date
            \/ /\ df[i].date = df[j].date
               /\ IF ties = "input" THEN i < j ELSE i > j
        Rank(i) == 1 + Cardinality({j \in 1..n : Before(j, i)})
    IN  Series([k \in 1..n |-> df[CHOOSE i \in 1..n : Rank(i) = k]])


\* ------------------------------------------------------------- profiling
\* d['elapsed_time'] = (d['date'] - d['date'].min()).dt.total_seconds()
ElapsedTimeFromZero(d) == Series([i \in 1..Len(d) |-> d[i].date])

ElapsedTime(d) ==
    LET start == SetMin({d[j].date : j \in 1..Len(d)})
    IN  Series([i \in 1..Len(d) |-> d[i].date - start])

\* np.sqrt(dx**2 + dy**2) between two consecutive rows
SegmentLength(a, b) ==
    LET dx == b.x - a.x
        dy == b.y - a.y
    IN  Sqrt(dx * dx + dy * dy)

\* d['distance'] = 0.0, then the running sum over range(1, len(d))
DistanceFromStart(d) ==
    Series([i \in 1..Len(d) |-> SegmentLength(d[1], d[i])])

Distance(d) ==
    LET dist[i \in 1..Len(d)] ==
            IF i = 1 THEN 0 ELSE dist[i - 1] + SegmentLength(d[i - 1], d[i])
    IN  Series(dist)

\* max_dist = d['distance'].max(); distance / max_dist * 100, or 0
DistancePctFraction(dist) ==
    LET max_dist == SetMax({dist[i] : i \in 1..Len(dist)})
    IN  IF max_dist > 0
        THEN Series([i \in 1..Len(dist) |-> Frac(dist[i], max_dist)])
        ELSE Series([i \in 1..Len(dist) |-> Frac(0, 1)])

DistancePct(dist) ==
    LET max_dist == SetMax({dist[i] : i \in 1..Len(dist)})
    IN  IF max_dist > 0
        THEN Series([i \in 1..Len(dist) |-> Frac(dist[i] * 100, max_dist)])
        ELSE Series([i \in 1..Len(dist) |-> Frac(0, 1)])

\* One driver's frame sorted and given its elapsed_time, distance and
\* distance_pct columns.
Profile(data, ties) ==
    LET d == SortValues(data, ties)
        elapsed == ElapsedTime(d)
        dist == Distance(d)
        pct == DistancePct(dist)
    IN  Series([i \in 1..Len(d) |->
            [elapsed_time |-> elapsed[i], distance |-> dist[i],
             distance_pct |-> pct[i]] @@ d[i]])

\* ------------------------------------------------------------- matching
\* idx = (other['distance_pct'] - dist_pct).abs().idxmin()
ClosestIdx(other, dist_pct) ==
    IdxMin(Series([j \in 1..Len(other) |-> FracAbsDiff(other[j].distance_pct, dist_pct)]))

\* if time_diff < 0: own name, else: the opponent's
FasterDriverTieToSelf(time_diff, own_name, other_name) ==
    IF time_diff <= 0 THEN own_name ELSE other_name

FasterDriver(time_diff, own_name, other_name) ==
    IF time_diff < 0 THEN own_name ELSE other_name

\* The loop over one driver's rows; idx is kept beside the columns the loop
\* writes so that the match itself can be inspected.
Annotate(own, other, own_name, other_name) ==
    Series([i \in 1..Len(own) |->
        LET idx == ClosestIdx(other, own[i].distance_pct)
            time_diff == own[i].elapsed_time - other[idx].elapsed_time
        IN  [time_delta |-> time_diff,
             faster_driver |-> FasterDriver(time_diff, own_name, other_name),
             idx |-> idx] @@ own[i]])

AnnotateDriver1(d1, d2, driver1_name, driver2_name) ==
    Annotate(d1, d2, driver1_name, driver2_name)

\* "Do the same for driver 2"
AnnotateDriver2TieToSelf(d1, d2, driver1_name, driver2_name) ==
    Series([i \in 1..Len(d2) |->
        LET idx == ClosestIdx(d1, d2[i].distance_pct)
            time_diff == d2[i].elapsed_time - d1[idx].elapsed_time
        IN  [time_delta |-> time_diff,
             faster_driver |-> IF time_diff > 0 THEN driver1_name
                               ELSE driver2_name,
             idx |-> idx] @@ d2[i]])

AnnotateDriver2(d1, d2, driver1_name, driver2_name) ==
    Annotate(d2, d1, driver2_name, driver1_name)

\* Frames without rows are pd.DataFrame(): they have no 'date' column and
\* sort_values('date') raises KeyError.
calculate_time_delta_by_position(driver1_data, driver2_data, driver1_name, driver2_name, ties) ==
    IF Len(driver1_data) = 0 \/ Len(driver2_data) = 0
    THEN [raised |-> "KeyError", d1 |-> <<>>, d2 |-> <<>>]
    ELSE LET d1 == Profile(driver1_data, ties)
             d2 == Profile(driver2_data, ties)
         IN  [raised |-> "none",
              d1 |-> AnnotateDriver1(d1, d2, driver1_name, driver2_name),
              d2 |-> AnnotateDriver2(d1, d2, driver1_name, driver2_name)]

\* ------------------------------------------------------------- normalizing
\* normalize_coordinates.  A frame is its set of column names and its rows.
\* A coordinate is a float: an exact fraction, or NaN, written 0/0 (a
\* division by zero also leaves denominator 0).  A row of a frame that has
\* no x (or y) column carries NaN in that place; it is never read.
NaN == [n |-> 0, d |-> 0]
isna(v) == v.d = 0
\* a - b, a / b and a * w + offset on floats
FracSub(a, b) == Frac(a.n * b.d - b.n * a.d, a.d * b.d)
FracDiv(a, b) == IF b.n < 0 THEN Frac(-(a.n * b.d), a.d * (-b.n)) ELSE Frac(a.n * b.d, a.d * b.n)
FracMulAdd(a, w, offset) == Frac(a.n * w + offset * a.d, a.d)
\* df[column].min(), df[column].max() of a float column without NaN
ColumnMin(df, column) == df[CHOOSE i \in 1..Len(df) : \A j \in 1..Len(df) : FracLe(df[i][column], df[j][column])][column]
ColumnMax(df, column) == df[CHOOSE i \in 1..Len(df) : \A j \in 1..Len(df) : FracLe(df[j][column], df[i][column])][column]

DataFrame(columns, rows) == [columns |-> columns, rows |-> rows]

\* df.dropna(subset=['x', 'y'])
dropna(rows) == SelectSeq(rows, LAMBDA r : ~isna(r.x) /\ ~isna(r.y))

\* x_range = x_max - x_min if x_max != x_min else 1
CoordRangeUnguarded(max, min) == FracSub(max, min)

CoordRange(max, min) == IF ~FracEq(max, min) THEN FracSub(max, min) ELSE Frac(1, 1)

\* (df['x'] - x_min) / x_range
NormalizedPercent(v, min, range) == FracDiv(Frac(100 * FracSub(v, min).n, FracSub(v, min).d), range)

Normalized(v, min, range) == FracDiv(FracSub(v, min), range)

normalize_coordinates(frame) ==
    IF Len(frame.rows) = 0 \/ "x" \notin frame.columns \/ "y" \notin frame.columns
    THEN frame
    ELSE LET df == dropna(frame.rows)
         IN  IF Len(df) = 0
             THEN DataFrame(frame.columns, <<>>)
             ELSE LET x_min == ColumnMin(df, "x")
                      x_max == ColumnMax(df, "x")
                      y_min == ColumnMin(df, "y")
                      y_max == ColumnMax(df, "y")
                      x_range == CoordRange(x_max, x_min)
                      y_range == CoordRange(y_max, y_min)
                  IN  DataFrame(frame.columns \cup {"x_norm", "y_norm"},
                          Series([i \in 1..Len(df) |->
                              [x_norm |-> Normalized(df[i].x, x_min, x_range),
                               y_norm |-> Normalized(df[i].y, y_min, y_range)] @@ df[i]]))

\* Longest frame handed to normalize_coordinates on its own.
MaxRows == 3

\* Values of the x and y columns: NaN, and a few floats with 0, 1/2 and 1
\* among them.
XValues == {NaN, Frac(-2, 1), Frac(0, 1), Frac(1, 2), Frac(1, 1)}
YValues == {NaN, Frac(0, 1), Frac(1, 2), Frac(1, 1), Frac(4, 1)}
CoordFrames ==
    {DataFrame(columns, rows) :
        columns \in {{"x", "y"}},
        rows \in UNION {[1..k -> [x : XValues, y : YValues]] : k \in 0..MaxRows}}
    \cup {DataFrame(columns, rows) :
        columns \in {{"x"}},
        rows \in UNION {[1..k -> [x : XValues, y : {NaN}]] : k \in 0..MaxRows}}
    \cup {DataFrame(columns, rows) :
        columns \in {{"y"}},
        rows \in UNION {[1..k -> [x : {NaN}, y : YValues]] : k \in 0..MaxRows}}
    \cup {DataFrame(columns, rows) :
        columns \in {{}},
        rows \in UNION {[1..k -> [x : {NaN}, y : {NaN}]] : k \in 0..MaxRows}}

NotReturned == [returned |-> FALSE, df |-> DataFrame({}, <<>>)]
Returned(df) == [returned |-> TRUE, df |-> df]

\* The normalized coordinates as the x and y of a frame.
AsCoordinates(frame) ==
    DataFrame({"x", "y"}, Series([i \in 1..Len(frame.rows) |-> [x |-> frame.rows[i].x_norm, y |-> frame.rows[i].y_norm]]))

InitNormalize ==
    /\ location_df \in CoordFrames
    /\ normalized = NotReturned
    /\ renormalized = NotReturned
    /\ PlotIdle
    /\ ResolverIdle
    /\ CallerIdle
    /\ FetchIdle

Normalize ==
    /\ ~normalized.returned
    /\ normalized' = Returned(normalize_coordinates(location_df))
    /\ UNCHANGED <<location_df, renormalized, plot_vars, resolver_vars, caller_vars, fetch_vars>>

NormalizeAgain ==
    /\ normalized.returned
    /\ ~renormalized.returned
    /\ "x_norm" \in normalized.df.columns
    /\ renormalized' = Returned(normalize_coordinates(AsCoordinates(normalized.df)))
    /\ UNCHANGED <<location_df, normalized, plot_vars, resolver_vars, caller_vars, fetch_vars>>

NextNormalize == Normalize \/ NormalizeAgain

SpecNormalize == InitNormalize /\ [][NextNormalize]_vars

\* ------------------------------------------------------------- the handler
\* The figure is abstracted to the two processed frames it is drawn from.
\* d1, d2 are the frames calculate_time_delta_by_position returned.  The
\* frames the traces are drawn from are a function of them, of the view box
\* and of the sort (d1_plot, d2_plot below), and are not stored again.
Pending == [returned |-> "pending", warning |-> "none", raised |-> "none", d1 |-> <<>>, d2 |-> <<>>]
ReturnNone(message) == [returned |-> "None", warning |-> message, raised |-> "none", d1 |-> <<>>, d2 |-> <<>>]

\* driver_data['driver'] = driver
AddDriver(df, driver) == Series([i \in 1..Len(df) |-> [driver |-> driver] @@ df[i]])

\* if driver1_data.empty or driver2_data.empty
MissingDataBoth(driver1_data, driver2_data) ==
    Len(driver1_data) = 0 /\ Len(driver2_data) = 0

MissingDataShort(driver1_data, driver2_data) ==
    Len(driver1_data) < 2 \/ Len(driver2_data) < 2

MissingData(driver1_data, driver2_data) ==
    Len(driver1_data) = 0 \/ Len(driver2_data) = 0

\* The int64 x and y of a location frame as the floats the division of
\* normalize_coordinates makes of them.
Floats(rows) == Series([i \in 1..Len(rows) |-> [rows[i] EXCEPT !.x = Frac(@, 1), !.y = Frac(@, 1)]])

\* Columns of the frames calculate_time_delta_by_position returns.
ProcessedColumns == {"date", "x", "y", "driver", "elapsed_time", "distance", "distance_pct", "time_delta", "faster_driver"}

\* combined_df = normalize_coordinates(pd.concat([d1_processed, d2_processed], ignore_index=True))
NormalizePerDriver(d1_processed, d2_processed) ==
    LET n1 == normalize_coordinates(DataFrame(ProcessedColumns, Floats(d1_processed)))
        n2 == normalize_coordinates(DataFrame(ProcessedColumns, Floats(d2_processed)))
    IN  DataFrame(n1.columns \cup n2.columns, n1.rows \o n2.rows)

NormalizeCombined(d1_processed, d2_processed) ==
    normalize_coordinates(DataFrame(ProcessedColumns, Floats(d1_processed \o d2_processed)))

\* combined_df['x_svg'] = combined_df['x_norm'] * vb_width + vb_x, and y
ScaleToViewBoxSwapped(rows, viewbox) ==
    Series([i \in 1..Len(rows) |->
        [x_svg |-> FracMulAdd(rows[i].x_norm, viewbox[4], viewbox[1]),
         y_svg |-> FracMulAdd(rows[i].y_norm, viewbox[3], viewbox[2])] @@ rows[i]])

ScaleToViewBox(rows, viewbox) ==
    LET vb_x == viewbox[1]
        vb_y == viewbox[2]
        vb_width == viewbox[3]
        vb_height == viewbox[4]
    IN  Series([i \in 1..Len(rows) |->
            [x_svg |-> FracMulAdd(rows[i].x_norm, vb_width, vb_x),
             y_svg |-> FracMulAdd(rows[i].y_norm, vb_height, vb_y)] @@ rows[i]])

\* combined_df[combined_df['driver'] == driver].sort_values('date').reset_index(drop=True)
SplitDriver(rows, driver, ties) == SortValues(SelectSeq(rows, LAMBDA r : r.driver = driver), ties)

plot_lap_comparison_on_track(dict, viewbox, ties) ==
    IF Len(dict) = 0 \/ \A k \in 1..Len(dict) : Len(dict[k].data) = 0
    THEN ReturnNone("No location data available for comparison.")
    ELSE IF Len(dict) # 2
    THEN ReturnNone("This comparison requires exactly 2 drivers.")
    ELSE LET driver1 == dict[1].driver
             driver2 == dict[2].driver
         IN  IF MissingData(dict[1].data, dict[2].data)
             THEN ReturnNone("Missing location data for one or both drivers.")
             ELSE LET calc == calculate_time_delta_by_position(
                                  AddDriver(dict[1].data, driver1),
                                  AddDriver(dict[2].data, driver2),
                                  driver1, driver2, ties)
                  IN  IF calc.raised # "none"
                      THEN [returned |-> "raised", warning |-> "none", raised |-> calc.raised, d1 |-> <<>>, d2 |-> <<>>]
                      ELSE LET combined_df == NormalizeCombined(calc.d1, calc.d2)
                           IN  IF Len(combined_df.rows) = 0
                               THEN ReturnNone("Unable to process location data.")
                               ELSE [returned |-> "Figure", warning |-> "none", raised |-> "none", d1 |-> calc.d1, d2 |-> calc.d2]

\* Lines 405-412 for a call that returned a figure: the combined frame
\* scaled to the view box and split by driver.
d1_plot(f, viewbox, ties) ==
    SplitDriver(ScaleToViewBox(NormalizeCombined(f.d1, f.d2).rows, viewbox), f.d1[1].driver, ties)
d2_plot(f, viewbox, ties) ==
    SplitDriver(ScaleToViewBox(NormalizeCombined(f.d1, f.d2).rows, viewbox), f.d2[1].driver, ties)

\* color_map.get(driver, default): the colour map is a function on the
\* drivers it knows.
DefaultColor1 == "#27AE60"
DefaultColor2 == "#3498DB"
TeamColors == {"#3671C6", "#27F4D2"}
ColorMaps == UNION {[known -> TeamColors] : known \in SUBSET {DriverA, DriverB}}
Get(color_map, driver, default) == IF driver \in DOMAIN color_map THEN color_map[driver] ELSE default

\* colors_d1 = [color1 if faster == driver1 else color2 for faster in d1_plot['faster_driver']]
ColorsOwnOnly(plot, driver, own, other) == Series([i \in 1..Len(plot) |-> own])
Colors(plot, driver, own, other) ==
    Series([i \in 1..Len(plot) |-> IF plot[i].faster_driver = driver THEN own ELSE other])

\* A trace is a line through rows first..last of one driver's drawn frame.
\* fig.add_trace(go.Scatter(x=plot['x_svg'], y=plot['y_svg'], line=dict(color=colors[0])))
BaseTrace(plot, driver, own, other) ==
    [path |-> driver, first |-> 1, last |-> Len(plot), color |-> Colors(plot, driver, own, other)[1]]

\* for i in range(1, len(plot)): if plot.loc[i, 'faster_driver'] == opponent:
\*     fig.add_trace(go.Scatter(x=plot.loc[i-1:i, 'x_svg'], ..., line=dict(color=other)))
RECURSIVE OverlayTraces(_, _, _, _, _)
OverlayTraces(plot, driver, opponent, other, i) ==
    IF i > Len(plot) THEN <<>>
    ELSE (IF plot[i].faster_driver = opponent
          THEN <<[path |-> driver, first |-> i - 1, last |-> i, color |-> other]>>
          ELSE <<>>)
         \o OverlayTraces(plot, driver, opponent, other, i + 1)

\* The legend entries: traces over x = [None], y = [None] (no row).
LegendTrace(color) == [path |-> "None", first |-> 1, last |-> 0, color |-> color]

\* Lines 414-509 for a call that returned a figure: the traces in the order
\* they are added, later ones drawn over earlier ones.
Traces(f, color_map, viewbox, ties) ==
    LET driver1 == f.d1[1].driver
        driver2 == f.d2[1].driver
        color1 == Get(color_map, driver1, DefaultColor1)
        color2 == Get(color_map, driver2, DefaultColor2)
        plot1 == d1_plot(f, viewbox, ties)
        plot2 == d2_plot(f, viewbox, ties)
    IN  <<BaseTrace(plot1, driver1, color1, color2)>>
        \o OverlayTraces(plot1, driver1, driver2, color2, 2)
        \o <<BaseTrace(plot2, driver2, color2, color1)>>
        \o OverlayTraces(plot2, driver2, driver1, color1, 2)
        \o <<LegendTrace(color1), LegendTrace(color2)>>

\* The same request with the dictionary built in the other order.
Reverse(s) == Series([k \in 1..Len(s) |-> s[Len(s) + 1 - k]])

\* ------------------------------------------------------------- state machine
Entry(driver, data) == [driver |-> driver, data |-> data]

\* CIRCUIT_VIEWBOX of main.py and the default of .get(circuit_key, ...).
CIRCUIT_VIEWBOX ==
    [bahrain |-> <<0, 0, 3183, 2363>>, jeddah |-> <<0, 0, 3550, 2105>>,
     albert_park |-> <<0, 0, 3255, 1742>>, baku |-> <<0, 0, 3417, 1921>>,
     miami |-> <<0, 0, 3630, 1755>>, monaco |-> <<0, 0, 3125, 2559>>,
     barcelona |-> <<0, 0, 3467, 1250>>, montreal |-> <<0, 0, 3242, 1659>>,
     red_bull_ring |-> <<0, 0, 3896, 2292>>, silverstone |-> <<0, 0, 3084, 1913>>,
     hungaroring |-> <<0, 0, 2792, 2705>>, spa |-> <<0, 0, 3388, 2234>>,
     zandvoort |-> <<0, 0, 3234, 2696>>, monza |-> <<0, 0, 3363, 1563>>,
     marina_bay |-> <<0, 0, 3334, 2292>>, suzuka |-> <<0, 0, 2892, 3117>>,
     losail |-> <<0, 0, 3696, 2867>>, cota |-> <<0, 0, 3267, 2617>>,
     mexico_city |-> <<0, 0, 3342, 2205>>, interlagos |-> <<0, 0, 3463, 2305>>,
     las_vegas |-> <<0, 0, 3500, 2255>>, yas_marina |-> <<0, 0, 3350, 2105>>,
     imola |-> <<0, 0, 3417, 1984>>, shanghai |-> <<0, 0, 3530, 2400>>]
DefaultViewBox == <<0, 0, 3500, 2000>>
\* The keys of the table, and the None of a circuit that was not recognised.
CircuitKeys == DOMAIN CIRCUIT_VIEWBOX \cup {"None"}
ViewBox(circuit_key) == IF circuit_key \in DOMAIN CIRCUIT_VIEWBOX THEN CIRCUIT_VIEWBOX[circuit_key] ELSE DefaultViewBox

Dicts ==
    {<<>>}
    \cup {<<Entry(DriverA, f)>> : f \in Frames(MaxLenOther)}
    \cup {<<Entry(DriverA, f1), Entry(DriverB, f2)>> : f1 \in Frames(MaxLen), f2 \in Frames(MaxLenOther)}

Init ==
    /\ location_data_dict \in Dicts
    /\ svg_viewbox = DefaultViewBox
    /\ tie_order \in TieOrders
    /\ fig = Pending
    /\ fig_swapped = Pending
    /\ ResolverIdle
    /\ NormalizerIdle
    /\ CallerIdle
    /\ FetchIdle

PlotLapComparison ==
    /\ fig.returned = "pending"
    /\ fig' = plot_lap_comparison_on_track(location_data_dict, svg_viewbox, tie_order)
    /\ UNCHANGED <<location_data_dict, svg_viewbox, tie_order, fig_swapped, resolver_vars, normalizer_vars, caller_vars, fetch_vars>>

PlotLapComparisonSwapped ==
    /\ fig.returned # "pending"
    /\ fig_swapped.returned = "pending"
    /\ fig_swapped' = plot_lap_comparison_on_track(Reverse(location_data_dict), svg_viewbox, tie_order)
    /\ UNCHANGED <<location_data_dict, svg_viewbox, tie_order, fig, resolver_vars, normalizer_vars, caller_vars, fetch_vars>>

Next == PlotLapComparison \/ PlotLapComparisonSwapped

Spec == Init /\ [][Next]_vars

\* Every order a frame's rows can be supplied in.
Orders(df) ==
    LET n == Len(df)
        Bijections == {p \in [1..n -> 1..n] : \A i, j \in 1..n : p[i] = p[j] => i = j}
    IN  {Series([k \in 1..n |-> df[p[k]]]) : p \in Bijections}

\* Scenario of the comparison: A at t = 0, 1, 2 s with x = 0, 10, 20 and B at
\* t = 0, 3 s with x = 0, 20 (y = 0), rows supplied in any order and the
\* dictionary built either way round.
ScenarioA == <<[date |-> 0, x |-> 0, y |-> 0], [date |-> 1, x |-> 10, y |-> 0], [date |-> 2, x |-> 20, y |-> 0]>>
ScenarioB == <<[date |-> 0, x |-> 0, y |-> 0], [date |-> 3, x |-> 20, y |-> 0]>>

InitScenario ==
    /\ \E a \in Orders(ScenarioA), b \in Orders(ScenarioB) :
          location_data_dict \in {<<Entry(DriverA, a), Entry(DriverB, b)>>, <<Entry(DriverB, b), Entry(DriverA, a)>>}
    /\ svg_viewbox = DefaultViewBox
    /\ tie_order \in TieOrders
    /\ fig = Pending
    /\ fig_swapped = Pending
    /\ ResolverIdle
    /\ NormalizerIdle
    /\ CallerIdle
    /\ FetchIdle

SpecScenario == InitScenario /\ [][Next]_vars

\* Scenario of two identical paths: both drivers have the same samples.
InitIdentical ==
    /\ \E f \in Frames(MaxLenIdentical) :
          location_data_dict = <<Entry(DriverA, f), Entry(DriverB, f)>>
    /\ svg_viewbox = DefaultViewBox
    /\ tie_order \in TieOrders
    /\ fig = Pending
    /\ fig_swapped = Pending
    /\ ResolverIdle
    /\ NormalizerIdle
    /\ CallerIdle
    /\ FetchIdle

SpecIdentical == InitIdentical /\ [][Next]_vars

\* The comparison on the canvas of each circuit: short frames over points
\* that spread over three x and three y (all pairwise distances integers).
MaxLenCanvas == 2
MaxLenCanvasOther == 1
MaxDateCanvas == 1
CanvasPoints == {<<0, 0>>, <<6, 0>>, <<3, 4>>, <<6, 8>>}
CanvasSamples == {[date |-> t, x |-> p[1], y |-> p[2]] : t \in 0..MaxDateCanvas, p \in CanvasPoints}
CanvasFrames(n) == UNION {[1..k -> CanvasSamples] : k \in 1..n}

InitCanvas ==
    /\ \E f1 \in CanvasFrames(MaxLenCanvas), f2 \in CanvasFrames(MaxLenCanvasOther) :
          location_data_dict = <<Entry(DriverA, f1), Entry(DriverB, f2)>>
    /\ \E circuit_key \in CircuitKeys : svg_viewbox = ViewBox(circuit_key)
    /\ tie_order \in TieOrders
    /\ fig = Pending
    /\ fig_swapped = Pending
    /\ ResolverIdle
    /\ NormalizerIdle
    /\ CallerIdle
    /\ FetchIdle

SpecCanvas == InitCanvas /\ [][Next]_vars

\* ------------------------------------------------------------- the caller's frames
\* A DataFrame is an object: a name bound to it by assignment shares it, and
\* a column assignment changes it for every holder.  The heap is the
\* sequence of the frames that exist, a reference is an index into it; the
\* caller's frames are the first ones.
\* df.copy(): a new object with the same rows
CopyAlias(heap, ref) == [heap |-> heap, ref |-> ref]
copy(heap, ref) == [heap |-> Append(heap, heap[ref]), ref |-> Len(heap) + 1]
\* df.sort_values('date') (inplace=False), df.dropna(...), reset_index(drop=True):
\* a new object holding the rows given
NewFrame(heap, rows) == [heap |-> Append(heap, rows), ref |-> Len(heap) + 1]
\* df[column] = values: the object, changed where it is
SetColumns(heap, ref, rows) == [heap EXCEPT ![ref] = rows]

\* calculate_time_delta_by_position on two frames of the heap
CompareCall(heap, ref1, ref2, driver1_name, driver2_name, ties) ==
    LET result == calculate_time_delta_by_position(heap[ref1], heap[ref2], driver1_name, driver2_name, ties)
    IN  IF result.raised # "none"
        THEN [heap |-> heap, result |-> result]
        ELSE LET sorted1 == NewFrame(heap, SortValues(heap[ref1], ties))
                 d1 == copy(sorted1.heap, sorted1.ref)
                 sorted2 == NewFrame(d1.heap, SortValues(heap[ref2], ties))
                 d2 == copy(sorted2.heap, sorted2.ref)
             IN  [heap |-> SetColumns(SetColumns(d2.heap, d1.ref, result.d1), d2.ref, result.d2),
                  result |-> result]

\* normalize_coordinates on a location frame of the heap (columns date, x, y)
LocationColumns == {"date", "x", "y"}
NormalizeCall(heap, ref) ==
    LET result == normalize_coordinates(DataFrame(LocationColumns, Floats(heap[ref])))
    IN  IF Len(heap[ref]) = 0
        THEN [heap |-> heap, result |-> result]
        ELSE LET df == copy(heap, ref)
                 kept == NewFrame(df.heap, dropna(Floats(df.heap[df.ref])))
             IN  [heap |-> SetColumns(kept.heap, kept.ref, result.rows), result |-> result]

\* plot_lap_comparison_on_track on the caller's dictionary: the dictionary
\* as the call leaves it, and the figure.
PlotCall(dict, viewbox, ties) ==
    IF Len(dict) # 2 \/ MissingData(dict[1].data, dict[2].data)
    THEN [dict |-> dict, result |-> plot_lap_comparison_on_track(dict, viewbox, ties)]
    ELSE LET driver1 == dict[1].driver
             driver2 == dict[2].driver
             heap == <<dict[1].data, dict[2].data>>
             driver1_data == copy(heap, 1)
             driver2_data == copy(driver1_data.heap, 2)
             with1 == SetColumns(driver2_data.heap, driver1_data.ref, AddDriver(driver2_data.heap[driver1_data.ref], driver1))
             with2 == SetColumns(with1, driver2_data.ref, AddDriver(with1[driver2_data.ref], driver2))
             compared == CompareCall(with2, driver1_data.ref, driver2_data.ref, driver1, driver2, ties)
         IN  [dict |-> <<Entry(driver1, compared.heap[1]), Entry(driver2, compared.heap[2])>>,
              result |-> plot_lap_comparison_on_track(
                             <<Entry(driver1, with2[driver1_data.ref]), Entry(driver2, with2[driver2_data.ref])>>,
                             viewbox, ties)]

\* The caller: two location frames of at most MaxLenCaller samples, and at
\* most MaxCalls calls in any order.
MaxLenCaller == 2
MaxDateCaller == 1
MaxCalls == 3
CallerPoints == {<<0, 0>>, <<3, 4>>}
CallerSamples == {[date |-> t, x |-> p[1], y |-> p[2]] : t \in 0..MaxDateCaller, p \in CallerPoints}
CallerFrames == UNION {[1..k -> CallerSamples] : k \in 0..MaxLenCaller}
Frame(dict, k) == dict[k].data
Call(op, arg, after, result) == [op |-> op, arg |-> arg, before |-> location_data_dict, after |-> after, result |-> result]

InitCaller ==
    /\ \E f1, f2 \in CallerFrames : location_data_dict = <<Entry(DriverA, f1), Entry(DriverB, f2)>>
    /\ svg_viewbox = DefaultViewBox
    /\ tie_order \in TieOrders
    /\ fig = NotCalled
    /\ fig_swapped = NotCalled
    /\ ResolverIdle
    /\ NormalizerIdle
    /\ calls = <<>>
    /\ FetchIdle

CallCompare ==
    /\ Len(calls) < MaxCalls
    /\ LET heap == <<Frame(location_data_dict, 1), Frame(location_data_dict, 2)>>
           done == CompareCall(heap, 1, 2, DriverA, DriverB, tie_order)
           after == <<Entry(DriverA, done.heap[1]), Entry(DriverB, done.heap[2])>>
       IN  /\ location_data_dict' = after
           /\ calls' = Append(calls, Call("compare", 0, after, done.result))
    /\ UNCHANGED <<svg_viewbox, tie_order, fig, fig_swapped, resolver_vars, normalizer_vars, fetch_vars>>

CallNormalize ==
    /\ Len(calls) < MaxCalls
    /\ \E k \in 1..2 :
          LET heap == <<Frame(location_data_dict, 1), Frame(location_data_dict, 2)>>
              done == NormalizeCall(heap, k)
              after == <<Entry(DriverA, done.heap[1]), Entry(DriverB, done.heap[2])>>
          IN  /\ location_data_dict' = after
              /\ calls' = Append(calls, Call("normalize", k, after, done.result))
    /\ UNCHANGED <<svg_viewbox, tie_order, fig, fig_swapped, resolver_vars, normalizer_vars, fetch_vars>>

CallPlot ==
    /\ Len(calls) < MaxCalls
    /\ LET done == PlotCall(location_data_dict, svg_viewbox, tie_order)
       IN  /\ location_data_dict' = done.dict
           /\ calls' = Append(calls, Call("plot", 0, done.dict, done.result))
    /\ UNCHANGED <<svg_viewbox, tie_order, fig, fig_swapped, resolver_vars, normalizer_vars, fetch_vars>>

NextCaller == CallCompare \/ CallNormalize \/ CallPlot

SpecCaller == InitCaller /\ [][NextCaller]_vars

\* ------------------------------------------------------------- lap window
\* fetch_location_for_lap (src/app/data_loader.py).  Times are whole
\* microseconds, the resolution of the '%f' field the window is formatted
\* with.  A cell of the lap table is <<v>> when it holds the value v and
\* <<>> when it is null (None, NaN, NaT).
Null == <<>>
Value(v) == <<v>>
\* pd.notna
notna(cell) == cell # Null

\* pd.Timedelta(minutes=2)
TwoMinutes == 120000000

\* Longest lap-timing table.
MaxLaps == 2

\* Drivers of the session and the text of their numbers.
DriverNumbers == {1, 44}
str(driver_number) == IF driver_number = 1 THEN "1" ELSE "44"
LapNumbers == {1, 2}
\* date_start of a lap record: null, or 0 s, or 1.5 ms.
DateStarts == {Null, Value(0), Value(1500)}
\* lap_duration: null, -1 s, 0 s, 0.7 ms, 90 s.
LapDurations == {Null, Value(-1000000), Value(0), Value(700), Value(90000000)}

LapRecords(durations) ==
    [driver_number : {str(n) : n \in DriverNumbers}, lap_number : LapNumbers, date_start : DateStarts, lap_duration : durations]
\* A lap table with or without a lap_duration column; without the column
\* a record's lap_duration is never read and is kept null.
LapTables ==
    {[columns |-> {"driver_number", "lap_number", "date_start", "lap_duration"}, rows |-> r] :
        r \in UNION {[1..k -> LapRecords(LapDurations)] : k \in 0..MaxLaps}}
    \cup {[columns |-> {"driver_number", "lap_number", "date_start"}, rows |-> r] :
        r \in UNION {[1..k -> LapRecords({Null})] : k \in 0..MaxLaps}}

SessionKeys == {9158}
LapRequests == [session_key : SessionKeys, driver_number : DriverNumbers, lap_number : LapNumbers]

\* What requests.get, response.json() and pd.DataFrame can make of the
\* location request: a frame (empty when the API has no rows or fetch_data
\* gave up), or an exception that fetch_data does not catch.
LocationRows == <<[date |-> 0, x |-> 0, y |-> 0], [date |-> 1, x |-> 3, y |-> 4]>>
LocationResponses == {[raised |-> FALSE, df |-> SubSeq(LocationRows, 1, k)] : k \in 0..2} \cup {[raised |-> TRUE, df |-> <<>>]}

\* lap_data[(lap_data['driver_number'] == str(driver_number)) & (lap_data['lap_number'] == lap_number)]
\* as the positions of the matching rows, in table order.
LapInfoAnyDriver(table, driver_number, lap_number) ==
    {i \in 1..Len(table.rows) : table.rows[i].lap_number = lap_number}

LapInfo(table, driver_number, lap_number) ==
    {i \in 1..Len(table.rows) :
        /\ table.rows[i].driver_number = str(driver_number)
        /\ table.rows[i].lap_number = lap_number}

\* .iloc[0] of a non-empty selection
iloc0(table, selection) == table.rows[SetMin(selection)]

\* lap_start + pd.Timedelta(...): NaT stays NaT.
AddTimedelta(timestamp, delta) ==
    IF timestamp = Null THEN Null ELSE Value(timestamp[1] + delta)

\* Lines 158-171: the end of the lap window.
LapEndNextLapFirst(table, driver_number, lap_number, lap_info, lap_start) ==
    LET next_lap == LapInfo(table, driver_number, lap_number + 1)
    IN  IF next_lap # {}
        THEN iloc0(table, next_lap).date_start
        ELSE IF "lap_duration" \in table.columns /\ notna(iloc0(table, lap_info).lap_duration)
        THEN AddTimedelta(lap_start, iloc0(table, lap_info).lap_duration[1])
        ELSE AddTimedelta(lap_start, TwoMinutes)

LapEnd(table, driver_number, lap_number, lap_info, lap_start) ==
    IF "lap_duration" \in table.columns /\ notna(iloc0(table, lap_info).lap_duration)
    THEN AddTimedelta(lap_start, iloc0(table, lap_info).lap_duration[1])
    ELSE LET next_lap == LapInfo(table, driver_number, lap_number + 1)
         IN  IF next_lap # {}
             THEN iloc0(table, next_lap).date_start
             ELSE AddTimedelta(lap_start, TwoMinutes)

\* strftime('%Y-%m-%dT%H:%M:%S.%f')[:-3]: the timestamp cut to whole
\* milliseconds, as the count of milliseconds the text spells out.
strftime_ms(timestamp) == timestamp[1] \div 1000

\* The outcome of one call: the messages shown, the window computed (if
\* any), the location requests issued and the frame returned.
LapPending == [returned |-> "pending", message |-> "none", window |-> Null, requests |-> <<>>, df |-> <<>>]
LapOutcome(message, window, requests, df) ==
    [returned |-> "DataFrame", message |-> message, window |-> window, requests |-> requests, df |-> df]

\* location_df['lap_number'] = lap_number
WithLapNumber(df, lap_number) == Series([i \in 1..Len(df) |-> [lap_number |-> lap_number] @@ df[i]])

fetch_location_for_lap(session_key, driver_number, lap_number, table, response) ==
    LET lap_info == LapInfo(table, driver_number, lap_number)
    IN  IF lap_info = {}
        THEN LapOutcome("No lap timing data found", Null, <<>>, <<>>)
        ELSE LET lap_start == iloc0(table, lap_info).date_start
                 lap_end == LapEnd(table, driver_number, lap_number, lap_info, lap_start)
                 window == Value([start |-> lap_start, end |-> lap_end])
             IN  IF lap_start = Null \/ lap_end = Null
                 THEN \* NaT.strftime raises; the except clause reports it
                      LapOutcome("Error fetching location data", window, <<>>, <<>>)
                 ELSE LET params == [session_key |-> session_key, driver_number |-> driver_number,
                                     date_gt |-> strftime_ms(lap_start),
                                     date_lt |-> strftime_ms(lap_end)]
                      IN  IF response.raised
                          THEN LapOutcome("Error fetching location data", window, <<params>>, <<>>)
                          ELSE IF Len(response.df) = 0
                          THEN LapOutcome("No location data returned", window, <<params>>, <<>>)
                          ELSE LapOutcome("none", window, <<params>>, WithLapNumber(response.df, lap_number))

InitLap ==
    /\ lap_data \in LapTables
    /\ lap_request \in LapRequests
    /\ lap_result = LapPending
    /\ PlotIdle
    /\ NormalizerIdle
    /\ CallerIdle
    /\ FetchIdle

FetchLocationForLap ==
    /\ lap_result.returned = "pending"
    /\ \E response \in LocationResponses :
          lap_result' = fetch_location_for_lap(lap_request.session_key, lap_request.driver_number,
                                               lap_request.lap_number, lap_data, response)
    /\ UNCHANGED <<lap_data, lap_request, plot_vars, normalizer_vars, caller_vars, fetch_vars>>

NextLap == FetchLocationForLap

SpecLap == InitLap /\ [][NextLap]_vars

\* ------------------------------------------------------------- fetch_data
\* fetch_data (src/app/data_loader.py).  One request is one step: the
\* server's answer to it and everything the loop body does with it.
MaxRetries == 3
\* fetch_data(endpoint, params=None, max_retries=3, timeout=30); the
\* location request passes max_retries=2; 0 leaves the loop unentered.
RetryLimits == 0..MaxRetries
\* BASE_URL = os.getenv("BASE_API_URL"): the variable's value, or None
BaseUrls == {"https://api.openf1.org/v1/", "None"}

\* The body of a response: JSON rows, JSON that is not rows, or no JSON.
Body(kind, rows) == [kind |-> kind, rows |-> rows]
TableBodies == {Body("rows", rows) : rows \in {<<>>, <<[meeting_key |-> 1]>>, <<[meeting_key |-> 2]>>}}
ScalarBody == Body("scalar", <<>>)
TextBody == Body("text", <<>>)
StatusCodes == {200, 404, 422, 429, 500, 503, 504}
\* What requests.get(full_url, timeout=timeout) ends with
Response(status_code, body) == [kind |-> "Response", status_code |-> status_code, body |-> body]
ReadTimeout == [kind |-> "Timeout", status_code |-> 0, body |-> TextBody]
ConnectionError == [kind |-> "RequestException", status_code |-> 0, body |-> TextBody]
Outcomes ==
    {Response(200, body) : body \in TableBodies \cup {ScalarBody, TextBody}}
    \cup {Response(status_code, TextBody) : status_code \in StatusCodes \ {200}}
    \cup {ReadTimeout, ConnectionError}

\* response.raise_for_status(): HTTPError for 4xx and 5xx
RaisesHTTPError(response) == response.kind = "Response" /\ 400 <= response.status_code /\ response.status_code < 600
\* response.json(): the rows, or what it raises.  A body that is not JSON
\* raises requests.exceptions.JSONDecodeError (a RequestException) from
\* requests 2.27 on and a plain ValueError before.
JsonRaises(body) == IF body.kind = "text" THEN {"RequestException", "ValueError"} ELSE {}
\* pd.DataFrame(data): rows become a frame, a scalar raises ValueError
Columns(rows) == IF Len(rows) = 0 THEN {} ELSE DOMAIN rows[1]
FrameRaises(body) == IF body.kind = "scalar" THEN {"ValueError"} ELSE {}
FrameOf(body) == DataFrame(Columns(body.rows), body.rows)
\* pd.DataFrame()
EmptyFrame == DataFrame({}, <<>>)

\* for attempt in range(max_retries)
RangeInclusive(n) == 0..n
range(n) == 0..(n - 1)
\* if attempt < max_retries - 1
AttemptsRemain(k, limit) == k < limit - 1
\* if e.response.status_code == 504
RetriedStatusAnyServerError(status_code) == status_code >= 500
RetriedStatus(status_code) == status_code = 504

Fetching(state) == [state |-> state, value |-> EmptyFrame, raised |-> "none"]
Return(df) == [state |-> "returned", value |-> df, raised |-> "none"]
Raise(exception) == [state |-> "raised", value |-> EmptyFrame, raised |-> exception]

InitFetch ==
    /\ BASE_URL \in BaseUrls
    /\ max_retries \in RetryLimits
    /\ attempt = 0
    /\ responses = <<>>
    /\ messages = <<>>
    /\ fetched = Fetching("called")
    /\ PlotIdle
    /\ ResolverIdle
    /\ NormalizerIdle
    /\ CallerIdle

\* full_url = requests.Request('GET', url, params=params).prepare().url
\* raises MissingSchema (a RequestException) for f"{None}{endpoint}".
PrepareUrl ==
    /\ fetched.state = "called"
    /\ fetched' = IF BASE_URL = "None" THEN Raise("RequestException") ELSE Fetching("loop")
    /\ UNCHANGED <<BASE_URL, max_retries, attempt, responses, messages, plot_vars, resolver_vars, normalizer_vars, caller_vars>>

\* The loop body for the answer the server gives to this request.
Retry(warning) ==
    /\ attempt' = attempt + 1
    /\ messages' = Append(messages, warning)
    /\ fetched' = fetched
GiveUp(error) ==
    /\ attempt' = attempt
    /\ messages' = Append(messages, error)
    /\ fetched' = Return(EmptyFrame)
Request(outcome) ==
    /\ fetched.state = "loop"
    /\ attempt \in range(max_retries)
    /\ responses' = Append(responses, outcome)
    /\ UNCHANGED <<BASE_URL, max_retries, plot_vars, resolver_vars, normalizer_vars, caller_vars>>

RequestSucceeds ==
    \E outcome \in Outcomes :
        /\ outcome.kind = "Response" /\ ~RaisesHTTPError(outcome)
        /\ Request(outcome)
        /\ attempt' = attempt
        /\ \/ /\ JsonRaises(outcome.body) \cup FrameRaises(outcome.body) = {}
              /\ fetched' = Return(FrameOf(outcome.body))
              /\ messages' = messages
           \/ \E exception \in JsonRaises(outcome.body) \cup FrameRaises(outcome.body) :
                 IF exception = "RequestException"
                 THEN /\ fetched' = Return(EmptyFrame)
                      /\ messages' = Append(messages, "error: Network error")
                 ELSE /\ fetched' = Raise(exception)
                      /\ messages' = messages

RequestTimesOut ==
    \E outcome \in Outcomes :
        /\ outcome.kind = "Timeout"
        /\ Request(outcome)
        /\ IF AttemptsRemain(attempt, max_retries)
           THEN Retry("warning: Request timed out")
           ELSE GiveUp("error: API request timed out")

RequestFailsWithStatus ==
    \E outcome \in Outcomes :
        /\ RaisesHTTPError(outcome)
        /\ Request(outcome)
        /\ IF RetriedStatus(outcome.status_code)
           THEN IF AttemptsRemain(attempt, max_retries)
                THEN Retry("warning: Server timeout")
                ELSE GiveUp("error: OpenF1 API server timeout")
           ELSE IF outcome.status_code = 422
                THEN GiveUp("error: HTTP Error 422")
                ELSE GiveUp("error: HTTP Error")

RequestFailsOnNetwork ==
    \E outcome \in Outcomes :
        /\ outcome.kind = "RequestException"
        /\ Request(outcome)
        /\ GiveUp("error: Network error")

\* return pd.DataFrame() after the loop
LoopEnds ==
    /\ fetched.state = "loop"
    /\ attempt \notin range(max_retries)
    /\ fetched' = Return(EmptyFrame)
    /\ UNCHANGED <<BASE_URL, max_retries, attempt, responses, messages, plot_vars, resolver_vars, normalizer_vars, caller_vars>>

NextFetch ==
    \/ PrepareUrl
    \/ RequestSucceeds
    \/ RequestTimesOut
    \/ RequestFailsWithStatus
    \/ RequestFailsOnNetwork
    \/ LoopEnds

SpecFetch == InitFetch /\ [][NextFetch]_vars

\* The call is synchronous and every request ends within its timeout: a
\* call that can take a step takes it.
SpecFetchFair == SpecFetch /\ WF_vars(NextFetch)

\* ------------------------------------------------------------- properties
\* Both calls of a state that returned a figure, as the pairs <<own, other>>
\* of a driver's annotated path and the opponent's.
Figures == {f \in {fig, fig_swapped} : f.returned = "Figure"}
Sides == {<<f.d1, f.d2>> : f \in Figures} \cup {<<f.d2, f.d1>> : f \in Figures}
Paths == {side[1] : side \in Sides}

\* |other[k].distance_pct - row.distance_pct|
PctGap(row, other, k) == FracAbsDiff(other[k].distance_pct, row.distance_pct)

\* C1: every sample is matched with the opponent sample whose distance_pct
\* is closest to its own, and among equally close ones with the earliest.
C1_ClosestEarliestMatch ==
    \A side \in Sides :
        LET own == side[1]
            other == side[2]
        IN  \A i \in 1..Len(own) :
                /\ own[i].idx \in 1..Len(other)
                /\ \A k \in 1..Len(other) :
                      FracLe(PctGap(own[i], other, own[i].idx), PctGap(own[i], other, k))
                /\ \A k \in 1..(own[i].idx - 1) :
                      FracLt(PctGap(own[i], other, own[i].idx), PctGap(own[i], other, k))

\* A sample with two equally close opponent samples of different elapsed
\* time, strictly between them, matched with the earlier one.
C1_Witness_TieResolved ==
    /\ fig.returned = "Figure"
    /\ \E i \in 1..Len(fig.d1) : \E k \in 1..Len(fig.d2) :
          LET j == fig.d1[i].idx
          IN  /\ j < k
              /\ FracEq(PctGap(fig.d1[i], fig.d2, j), PctGap(fig.d1[i], fig.d2, k))
              /\ FracLt(fig.d2[j].distance_pct, fig.d1[i].distance_pct)
              /\ FracLt(fig.d1[i].distance_pct, fig.d2[k].distance_pct)
              /\ fig.d2[j].elapsed_time # fig.d2[k].elapsed_time

\* The opponent sample the rule of C1 names for a row.
Nearest(row, other) ==
    CHOOSE j \in 1..Len(other) :
        /\ \A k \in 1..Len(other) : FracLe(PctGap(row, other, j), PctGap(row, other, k))
        /\ \A k \in 1..(j - 1) : FracLt(PctGap(row, other, j), PctGap(row, other, k))

\* C2: on both paths time_delta is the sample's elapsed_time minus the
\* matched opponent sample's, and faster_driver is the path's own driver
\* exactly when time_delta < 0, the opponent otherwise (zero included).
C2_TimeDeltaAndFasterDriver ==
    \A side \in Sides :
        LET own == side[1]
            other == side[2]
        IN  \A i \in 1..Len(own) :
                /\ own[i].time_delta = own[i].elapsed_time - other[Nearest(own[i], other)].elapsed_time
                /\ own[i].time_delta < 0 => own[i].faster_driver = own[i].driver
                /\ own[i].time_delta >= 0 => own[i].faster_driver = other[1].driver
                /\ own[i].driver # other[1].driver

\* The first path has a sample ahead, a sample behind and a dead heat, the
\* second a dead heat given to the first driver, and one sample's delta is
\* not the negated delta of the opponent sample it is matched with.
C2_Witness_AllSigns ==
    /\ fig.returned = "Figure"
    /\ \E i \in 1..Len(fig.d1) : fig.d1[i].time_delta < 0 /\ fig.d1[i].faster_driver = DriverA
    /\ \E i \in 1..Len(fig.d1) : fig.d1[i].time_delta > 0 /\ fig.d1[i].faster_driver = DriverB
    /\ \E i \in 1..Len(fig.d1) : fig.d1[i].time_delta = 0 /\ fig.d1[i].faster_driver = DriverB
    /\ \E i \in 1..Len(fig.d2) : fig.d2[i].time_delta = 0 /\ fig.d2[i].faster_driver = DriverA
    /\ \E i \in 1..Len(fig.d1) :
          fig.d1[i].time_delta # 0 - fig.d2[fig.d1[i].idx].time_delta

\* The annotated path of driver A in a call, with driver B's beside it.
SidesOfA == {side \in Sides : side[1][1].driver = DriverA}
PctIs(row, v) == FracEq(row.distance_pct, Frac(v, 1))

\* C3 (as the code behaves): in the scenario A's distance_pct is 0, 50, 100
\* and B's is 0, 100; A's midpoint is equally close to both of B's samples
\* and is matched with the earlier one (index 0), so its time_delta is
\* 1 - 0 = 1 and its faster_driver is B.
C3_ScenarioMidpointMatchesFirst ==
    \A side \in SidesOfA :
        LET a == side[1]
            b == side[2]
        IN  /\ Len(a) = 3 /\ PctIs(a[1], 0) /\ PctIs(a[2], 50) /\ PctIs(a[3], 100)
            /\ Len(b) = 2 /\ PctIs(b[1], 0) /\ PctIs(b[2], 100)
            /\ a[2].elapsed_time = 1
            /\ a[2].idx = 1
            /\ a[2].time_delta = 1
            /\ a[2].faster_driver = DriverB

\* C3 as claimed: A's midpoint is matched with B's sample at index 1, its
\* time_delta is 1 - 3 = -2 and its faster_driver is A.
C3_ScenarioAsClaimed ==
    \A side \in SidesOfA :
        LET a == side[1]
            b == side[2]
        IN  /\ Len(a) = 3 /\ PctIs(a[1], 0) /\ PctIs(a[2], 50) /\ PctIs(a[3], 100)
            /\ Len(b) = 2 /\ PctIs(b[1], 0) /\ PctIs(b[2], 100)
            /\ a[2].idx = 2
            /\ a[2].time_delta = 1 - 3
            /\ a[2].faster_driver = DriverA

\* The scenario has been compared from rows supplied out of order: A's
\* midpoint lies 50 points from both of B's samples, which differ in time.
C3_Witness_MidpointTie ==
    /\ fig.returned = "Figure"
    /\ \E k \in 1..2 : location_data_dict[k].data = <<ScenarioA[3], ScenarioA[1], ScenarioA[2]>>
    /\ \E side \in SidesOfA :
          /\ PctIs(side[1][2], 50)
          /\ FracEq(PctGap(side[1][2], side[2], 1), Frac(50, 1))
          /\ FracEq(PctGap(side[1][2], side[2], 2), Frac(50, 1))
          /\ side[2][1].elapsed_time = 0 /\ side[2][2].elapsed_time = 3

\* The first sample of a path that has the same distance_pct as sample i.
FirstAtPct(path, i) ==
    CHOOSE j \in 1..i :
        /\ FracEq(path[j].distance_pct, path[i].distance_pct)
        /\ \A k \in 1..(j - 1) : ~FracEq(path[k].distance_pct, path[i].distance_pct)

\* C4 (as the code behaves): comparing two identical paths gives every
\* sample the opponent as faster_driver and a time_delta >= 0, which is 0
\* for the first sample and for every sample further along the track than
\* the previous one; a stalled sample gets its elapsed_time minus that of
\* the first sample at the same distance_pct.
C4_IdenticalZeroUnlessStalled ==
    \A side \in Sides :
        LET own == side[1]
            other == side[2]
        IN  \A i \in 1..Len(own) :
                /\ own[i].faster_driver = other[1].driver
                /\ own[i].faster_driver # own[i].driver
                /\ own[i].time_delta >= 0
                /\ own[i].time_delta = own[i].elapsed_time - own[FirstAtPct(own, i)].elapsed_time
                /\ (i = 1 \/ FracLt(own[i - 1].distance_pct, own[i].distance_pct)) => own[i].time_delta = 0

\* C4 as claimed: comparing two identical paths gives every sample
\* time_delta = 0 and the opponent as faster_driver.
C4_IdenticalAllZero ==
    \A side \in Sides :
        \A i \in 1..Len(side[1]) :
            /\ side[1][i].time_delta = 0
            /\ side[1][i].faster_driver = side[2][1].driver

\* Identical three-sample paths with a stall and then a move: the stalled
\* sample has a positive delta, the moving one a zero delta.
C4_Witness_StallThenMove ==
    /\ fig.returned = "Figure"
    /\ location_data_dict[1].data = location_data_dict[2].data
    /\ Len(fig.d1) = 3
    /\ fig.d1[2].distance = 0 /\ fig.d1[2].time_delta > 0
    /\ fig.d1[3].distance > 0 /\ fig.d1[3].time_delta = 0 /\ fig.d1[3].elapsed_time > 0
    /\ fig.d2[2].time_delta > 0 /\ fig.d2[2].faster_driver = DriverA

\* The columns of an annotated path the comparison reports per sample.
Annotation(path) ==
    [i \in 1..Len(path) |->
        [date |-> path[i].date, x |-> path[i].x, y |-> path[i].y, driver |-> path[i].driver,
         time_delta |-> path[i].time_delta, faster_driver |-> path[i].faster_driver]]

\* C5: the request made with the drivers in the other order returns the
\* same outcome, and each driver's path carries the same time_delta and
\* faster_driver at every sample.
C5_ArgumentOrderInvariant ==
    (fig.returned # "pending" /\ fig_swapped.returned # "pending") =>
        /\ fig.returned = fig_swapped.returned
        /\ Annotation(fig.d1) = Annotation(fig_swapped.d2)
        /\ Annotation(fig.d2) = Annotation(fig_swapped.d1)

\* Both orders have returned a figure; the first driver is ahead at some
\* samples and behind at others.
C5_Witness_BothOrders ==
    /\ fig.returned = "Figure" /\ fig_swapped.returned = "Figure"
    /\ fig_swapped.d1[1].driver = DriverB
    /\ \E i \in 1..Len(fig.d1) : fig.d1[i].time_delta < 0
    /\ \E i \in 1..Len(fig.d1) : fig.d1[i].time_delta > 0
    /\ \E i \in 1..Len(fig.d2) : fig.d2[i].time_delta > 0
    /\ \E i \in 1..Len(fig_swapped.d1) : fig_swapped.d1[i].faster_driver = DriverA
    /\ \E i \in 1..Len(fig_swapped.d2) : fig_swapped.d2[i].faster_driver = DriverA

\* C6: with two drivers of which at least one has no samples, the call
\* returns None with a warning and no annotated path, in either order.
C6_EmptyPathNoResult ==
    \A f \in {fig, fig_swapped} :
        (/\ f.returned # "pending"
         /\ Len(location_data_dict) = 2
         /\ \E k \in 1..2 : Len(location_data_dict[k].data) = 0)
        => /\ f.returned = "None"
           /\ f.warning # "none"
           /\ f.raised = "none"
           /\ f.d1 = <<>> /\ f.d2 = <<>>

\* One driver has samples, the other none, and both calls were refused.
C6_Witness_OneEmpty ==
    /\ Len(location_data_dict) = 2
    /\ Len(location_data_dict[1].data) = 0
    /\ Len(location_data_dict[2].data) = 2
    /\ fig.returned = "None" /\ fig_swapped.returned = "None"
    /\ fig.warning = "Missing location data for one or both drivers."

\* C7: along every returned path distance starts at 0, grows from one
\* sample to the next by the Euclidean distance between them, and distance
\* and distance_pct never decrease.
C7_CumulativeDistance ==
    \A path \in Paths :
        /\ path[1].distance = 0
        /\ \A i \in 2..Len(path) :
              LET step == path[i].distance - path[i - 1].distance
                  dx == path[i].x - path[i - 1].x
                  dy == path[i].y - path[i - 1].y
              IN  /\ step >= 0
                  /\ step * step = dx * dx + dy * dy
                  /\ FracLe(path[i - 1].distance_pct, path[i].distance_pct)

\* A three-sample path that moves diagonally and then returns to a point
\* next to its start, so that path length and displacement differ.
C7_Witness_DiagonalThenBack ==
    \E path \in Paths :
        /\ Len(path) = 3
        /\ path[2].x # path[1].x /\ path[2].y # path[1].y
        /\ path[2].distance = 5
        /\ path[3].distance = 9
        /\ path[3].x = 3 /\ path[3].y = 0 /\ path[1].x = 0 /\ path[1].y = 0

\* C8: distance_pct is distance / max(distance) * 100 when the maximum is
\* positive, so it lies in [0, 100], starts at 0 and ends at 100; on a path
\* of total distance 0 it is 0 for every sample.
C8_DistancePct ==
    \A path \in Paths :
        LET max_dist == SetMax({path[i].distance : i \in 1..Len(path)})
        IN  IF max_dist > 0
            THEN /\ \A i \in 1..Len(path) :
                      /\ FracEq(path[i].distance_pct, Frac(path[i].distance * 100, max_dist))
                      /\ FracLe(Frac(0, 1), path[i].distance_pct)
                      /\ FracLe(path[i].distance_pct, Frac(100, 1))
                 /\ PctIs(path[1], 0)
                 /\ PctIs(path[Len(path)], 100)
            ELSE \A i \in 1..Len(path) : PctIs(path[i], 0)

\* One driver's path has a sample at 3/7 of its length, the other driver's
\* path has two samples and no length.
C8_Witness_FractionAndZero ==
    /\ fig.returned = "Figure"
    /\ Len(fig.d1) = 3
    /\ FracEq(fig.d1[2].distance_pct, Frac(300, 7))
    /\ PctIs(fig.d1[3], 100)
    /\ Len(fig.d2) = 2
    /\ fig.d2[2].distance = 0 /\ PctIs(fig.d2[2], 0)

\* The samples of a path, and the orders a request's frames can come in.
Raw(path) == [i \in 1..Len(path) |-> [date |-> path[i].date, x |-> path[i].x, y |-> path[i].y]]
DistinctDates(df) == \A i, j \in 1..Len(df) : df[i].date = df[j].date => i = j
Reordered(dict) == {<<Entry(dict[1].driver, a), Entry(dict[2].driver, b)>> : a \in Orders(dict[1].data), b \in Orders(dict[2].data)}

\* C9 (as the code behaves): whatever order the samples are supplied in,
\* each returned path holds the supplied samples ordered by non-decreasing
\* date; and when the dates of each frame are pairwise distinct the whole
\* result is the same for every order the samples can be supplied in (the
\* orders are tried once per request, in the state the first call leaves).
C9_SortedAndOrderFreeForDistinctDates ==
    fig.returned = "Figure" =>
        /\ \A k \in 1..2 :
              LET path == IF k = 1 THEN fig.d1 ELSE fig.d2
              IN  /\ \A i \in 2..Len(path) : path[i - 1].date <= path[i].date
                  /\ Raw(path) \in Orders(location_data_dict[k].data)
        /\ (/\ fig_swapped.returned = "pending"
            /\ DistinctDates(location_data_dict[1].data)
            /\ DistinctDates(location_data_dict[2].data)) =>
              \A dict \in Reordered(location_data_dict) :
                  plot_lap_comparison_on_track(dict, svg_viewbox, tie_order) = fig

\* C9 as claimed: the result does not depend on the order the samples are
\* supplied in.
C9_OrderIndependent ==
    fig.returned = "Figure" =>
        \A dict \in Reordered(location_data_dict) :
            plot_lap_comparison_on_track(dict, svg_viewbox, tie_order) = fig

\* A frame of three samples with distinct dates supplied latest first.
C9_Witness_UnsortedInput ==
    /\ fig.returned = "Figure"
    /\ Len(fig.d1) = 3
    /\ DistinctDates(location_data_dict[1].data)
    /\ location_data_dict[1].data[1].date = 2
    /\ location_data_dict[1].data[3].date = 0
    /\ fig.d1[1].date = 0 /\ fig.d1[3].date = 2
    /\ fig.d1[3].distance > 0
    /\ Len(fig.d2) = 2
    /\ location_data_dict[2].data[1].date > location_data_dict[2].data[2].date

\* C10: along every returned path elapsed_time is the sample's date minus
\* the first sample's date in seconds, so it starts at 0, is never negative
\* and never decreases.
C10_ElapsedTime ==
    \A path \in Paths :
        /\ path[1].elapsed_time = 0
        /\ \A i \in 1..Len(path) :
              /\ path[i].elapsed_time = path[i].date - path[1].date
              /\ path[i].elapsed_time >= 0
        /\ \A i \in 2..Len(path) : path[i - 1].elapsed_time <= path[i].elapsed_time

\* A path whose first sample is not at date 0 and whose samples were
\* supplied out of order.
C10_Witness_LateStart ==
    /\ fig.returned = "Figure"
    /\ Len(fig.d1) = 3
    /\ fig.d1[1].date = 1
    /\ fig.d1[3].elapsed_time = 1
    /\ location_data_dict[1].data[1].date = 2


\* C11: a path of exactly one sample is profiled to elapsed_time 0, distance
\* 0 and distance_pct 0, and comparing it with any non-empty path returns
\* both drivers' paths, each with all of its samples annotated.
C11_SingleSamplePath ==
    \A call \in {<<location_data_dict, fig>>, <<Reverse(location_data_dict), fig_swapped>>} :
        LET dict == call[1]
            f == call[2]
        IN  (/\ f.returned # "pending"
             /\ Len(dict) = 2
             /\ Len(dict[1].data) >= 1
             /\ Len(dict[2].data) >= 1
             /\ \E k \in 1..2 : Len(dict[k].data) = 1)
            => /\ f.returned = "Figure"
               /\ Len(f.d1) = Len(dict[1].data)
               /\ Len(f.d2) = Len(dict[2].data)
               /\ \A d \in {f.d1, f.d2} :
                     /\ \A i \in 1..Len(d) : d[i].idx \in 1..(Len(f.d1) + Len(f.d2) - Len(d))
                     /\ Len(d) = 1 =>
                           /\ d[1].elapsed_time = 0
                           /\ d[1].distance = 0
                           /\ d[1].distance_pct.n = 0
                           /\ d[1].distance_pct.d > 0

\* A one-sample path dated after 0 compared with a longer path that moves.
C11_Witness_OneAgainstMany ==
    /\ fig.returned = "Figure"
    /\ Len(fig.d2) = 1
    /\ location_data_dict[2].data[1].date > 0
    /\ Len(fig.d1) = MaxLen
    /\ fig.d1[MaxLen].distance > 0
    /\ fig.d2[1].elapsed_time = 0
    /\ fig_swapped.returned = "Figure"


\* The lap record the request selects (the first one in table order), and
\* whether there is one.
Requested ==
    {i \in 1..Len(lap_data.rows) :
        /\ lap_data.rows[i].driver_number = str(lap_request.driver_number)
        /\ lap_data.rows[i].lap_number = lap_request.lap_number}
RequestedLap == lap_data.rows[CHOOSE i \in Requested : \A j \in Requested : i <= j]
NextLapRecords ==
    {i \in 1..Len(lap_data.rows) :
        /\ lap_data.rows[i].driver_number = str(lap_request.driver_number)
        /\ lap_data.rows[i].lap_number = lap_request.lap_number + 1}
HasDuration == "lap_duration" \in lap_data.columns /\ RequestedLap.lap_duration # Null
LapDone == lap_result.returned # "pending"
\* A window with both ends known was computed.
WindowResolved ==
    /\ LapDone
    /\ lap_result.window # Null
    /\ lap_result.window[1].start # Null
    /\ lap_result.window[1].end # Null

\* C12: the end of the lap window is start + lap_duration when the lap's
\* lap_duration is present and not null, even if a record of the next lap
\* exists; otherwise the start of the same driver's record for lap_number + 1
\* when there is one; otherwise start + 120 s exactly.
C12_WindowEndPriority ==
    (LapDone /\ Requested # {} /\ RequestedLap.date_start # Null) =>
        LET start == RequestedLap.date_start[1]
            window == lap_result.window[1]
        IN  /\ window.start = Value(start)
            /\ HasDuration => window.end = Value(start + RequestedLap.lap_duration[1])
            /\ (~HasDuration /\ NextLapRecords # {}) =>
                  \E i \in NextLapRecords :
                      /\ \A j \in NextLapRecords : i <= j
                      /\ window.end = lap_data.rows[i].date_start
            /\ (~HasDuration /\ NextLapRecords = {}) => window.end = Value(start + 120 * 1000000)

\* The three ranks of the rule each decide a window: a duration beside a
\* next-lap record with another start, a next-lap record alone, and neither.
C12_Witness_DurationBesideNextLap ==
    /\ WindowResolved
    /\ Requested # {}
    /\ HasDuration
    /\ NextLapRecords # {}
    /\ lap_result.window[1].end # lap_data.rows[CHOOSE i \in NextLapRecords : TRUE].date_start
    /\ lap_result.window[1].end[1] > lap_result.window[1].start[1]
    /\ Len(lap_result.df) > 0

\* C13: every lap window the resolver computes has end_time > start_time.
C13_WindowEndAfterStart ==
    WindowResolved => lap_result.window[1].end[1] > lap_result.window[1].start[1]

\* C14: when no record of the table matches the requested (driver, lap),
\* the call reports that no lap timing data was found, computes no window,
\* issues no location request and returns an empty frame.
C14_NotFound ==
    (LapDone /\ Requested = {}) =>
        /\ lap_result.message = "No lap timing data found"
        /\ lap_result.window = Null
        /\ lap_result.requests = <<>>
        /\ lap_result.df = <<>>

\* The table has the requested lap of another driver and another lap of
\* the requested driver, and the call has returned.
C14_Witness_OtherDriverOtherLap ==
    /\ LapDone
    /\ Requested = {}
    /\ \E i, j \in 1..Len(lap_data.rows) :
          /\ lap_data.rows[i].lap_number = lap_request.lap_number
          /\ lap_data.rows[i].driver_number # str(lap_request.driver_number)
          /\ lap_data.rows[j].driver_number = str(lap_request.driver_number)
          /\ lap_data.rows[j].lap_number # lap_request.lap_number
          /\ lap_data.rows[i].date_start # Null


\* The rows of the normalizer's argument that have both coordinates, in
\* input order, and the extremes of a coordinate over a set of rows.
Complete(row) == row.x.d # 0 /\ row.y.d # 0
Survivors == SelectSeq(location_df.rows, Complete)
IsLeast(m, values) == m \in values /\ \A v \in values : FracLe(m, v)
IsGreatest(m, values) == m \in values /\ \A v \in values : FracLe(v, m)
Xs(rows) == {rows[i].x : i \in 1..Len(rows)}
Ys(rows) == {rows[i].y : i \in 1..Len(rows)}
\* norm = (v - min) / (max - min), or v - min when max = min
IsNormalOf(norm, v, values) ==
    \E min \in values, max \in values :
        /\ IsLeast(min, values)
        /\ IsGreatest(max, values)
        /\ norm.d > 0
        /\ IF FracEq(max, min)
           THEN FracEq(norm, FracSub(v, min))
           ELSE norm.n * FracSub(max, min).n * FracSub(v, min).d = FracSub(v, min).n * FracSub(max, min).d * norm.d

\* C15: the result holds exactly the argument's samples that have both x and
\* y, in their order, each with x_norm = (x - x_min) / x_range and y_norm =
\* (y - y_min) / y_range taken over those samples.
C15_KeepsExactlyCompleteSamples ==
    normalized.returned =>
        LET out == normalized.df.rows
        IN  /\ Len(out) = Len(Survivors)
            /\ \A i \in 1..Len(out) :
                  /\ out[i].x = Survivors[i].x
                  /\ out[i].y = Survivors[i].y
                  /\ "x_norm" \in DOMAIN out[i]
                  /\ "y_norm" \in DOMAIN out[i]
                  /\ IsNormalOf(out[i].x_norm, out[i].x, Xs(Survivors))
                  /\ IsNormalOf(out[i].y_norm, out[i].y, Ys(Survivors))

\* The same for an argument that has an x and a y column.
NormalizeKeepsCompleteSamples ==
    (normalized.returned /\ {"x", "y"} \subseteq location_df.columns) => C15_KeepsExactlyCompleteSamples

\* C16: an empty argument, or one in which every sample lacks x or y, gives
\* an empty result (normalize_coordinates has no way to raise here).
C16_EmptyWhenNothingComplete ==
    (normalized.returned /\ Len(Survivors) = 0) => Len(normalized.df.rows) = 0

\* The same for an argument that has an x and a y column, or no rows.
NormalizeEmptyWhenNothingComplete ==
    (normalized.returned /\ ({"x", "y"} \subseteq location_df.columns \/ Len(location_df.rows) = 0)) => C16_EmptyWhenNothingComplete

\* C17: when all surviving x are equal, x_norm is 0 for every sample, with a
\* divisor that is not zero; the same for y.
C17_DegenerateRange ==
    (normalized.returned /\ "x_norm" \in normalized.df.columns) =>
        LET out == normalized.df.rows
        IN  /\ (\A i, j \in 1..Len(out) : FracEq(out[i].x, out[j].x)) =>
                  \A i \in 1..Len(out) : out[i].x_norm.d > 0 /\ out[i].x_norm.n = 0
            /\ (\A i, j \in 1..Len(out) : FracEq(out[i].y, out[j].y)) =>
                  \A i \in 1..Len(out) : out[i].y_norm.d > 0 /\ out[i].y_norm.n = 0

\* Two samples survive with one x that is not 0 and two different y.
C17_Witness_EqualXOnly ==
    /\ normalized.returned
    /\ Len(normalized.df.rows) = 2
    /\ Len(location_df.rows) = 3
    /\ normalized.df.rows[1].x = normalized.df.rows[2].x
    /\ normalized.df.rows[1].x.n # 0
    /\ normalized.df.rows[1].x_norm.n = 0
    /\ normalized.df.rows[2].y_norm.n # normalized.df.rows[1].y_norm.n

\* C19: if the surviving coordinates have minimum 0 and maximum 1 in x and
\* in y, x_norm = x and y_norm = y for every sample; and normalizing the
\* normalized coordinates again gives the same samples with x_norm and
\* y_norm unchanged.
C19_Idempotent ==
    /\ (normalized.returned /\ "x_norm" \in normalized.df.columns) =>
          LET out == normalized.df.rows
              Zero == Frac(0, 1)
              One == Frac(1, 1)
          IN  (/\ \E m \in Xs(out) : IsLeast(m, Xs(out)) /\ FracEq(m, Zero)
               /\ \E m \in Xs(out) : IsGreatest(m, Xs(out)) /\ FracEq(m, One)
               /\ \E m \in Ys(out) : IsLeast(m, Ys(out)) /\ FracEq(m, Zero)
               /\ \E m \in Ys(out) : IsGreatest(m, Ys(out)) /\ FracEq(m, One))
              => \A i \in 1..Len(out) :
                    /\ out[i].x_norm.d > 0 /\ FracEq(out[i].x_norm, out[i].x)
                    /\ out[i].y_norm.d > 0 /\ FracEq(out[i].y_norm, out[i].y)
    /\ renormalized.returned =>
          LET once == normalized.df.rows
              twice == renormalized.df.rows
          IN  /\ Len(twice) = Len(once)
              /\ \A i \in 1..Len(once) :
                    /\ twice[i].x_norm.d > 0 /\ FracEq(twice[i].x_norm, once[i].x_norm)
                    /\ twice[i].y_norm.d > 0 /\ FracEq(twice[i].y_norm, once[i].y_norm)

\* x runs over -2, 0, 1 (so the first pass changed it, to 0, 2/3, 1), y over
\* 0, 1/2, 1 (so the first pass kept it), and the second pass has returned.
C19_Witness_SecondPass ==
    /\ renormalized.returned
    /\ Len(renormalized.df.rows) = 3
    /\ \E i \in 1..3 : location_df.rows[i].x.n < 0
    /\ \E i \in 1..3 : FracEq(renormalized.df.rows[i].x_norm, Frac(2, 3))
    /\ \E i \in 1..3 : FracEq(renormalized.df.rows[i].y_norm, Frac(1, 2))
    /\ \A i \in 1..3 : FracEq(normalized.df.rows[i].y_norm, location_df.rows[i].y)


\* The x (the y) of every sample of either driver of the dictionary.
UnionXs == UNION {{Frac(location_data_dict[k].data[i].x, 1) : i \in 1..Len(location_data_dict[k].data)} : k \in 1..Len(location_data_dict)}
UnionYs == UNION {{Frac(location_data_dict[k].data[i].y, 1) : i \in 1..Len(location_data_dict[k].data)} : k \in 1..Len(location_data_dict)}
\* The rows drawn for either driver, by either call.
Drawn1(f) == d1_plot(f, svg_viewbox, tie_order)
Drawn2(f) == d2_plot(f, svg_viewbox, tie_order)
PlotRows(f) ==
    LET rows1 == Drawn1(f)
        rows2 == Drawn2(f)
    IN  {rows1[i] : i \in 1..Len(rows1)} \cup {rows2[i] : i \in 1..Len(rows2)}

\* C18: in a two-driver comparison x_norm and y_norm are taken against the
\* minimum and range of both drivers' samples together, so two samples of
\* different drivers with equal raw (x, y) have equal (x_norm, y_norm) and
\* equal canvas coordinates.
C18_NormalizedOverUnion ==
    \A f \in Figures :
        /\ \A row \in PlotRows(f) :
              /\ IsNormalOf(row.x_norm, row.x, UnionXs)
              /\ IsNormalOf(row.y_norm, row.y, UnionYs)
        /\ LET rows1 == Drawn1(f)
               rows2 == Drawn2(f)
           IN  \A i \in 1..Len(rows1), j \in 1..Len(rows2) :
                   LET a == rows1[i]
                       b == rows2[j]
                   IN  (a.driver # b.driver /\ FracEq(a.x, b.x) /\ FracEq(a.y, b.y)) =>
                           /\ FracEq(a.x_norm, b.x_norm) /\ FracEq(a.y_norm, b.y_norm)
                           /\ FracEq(a.x_svg, b.x_svg) /\ FracEq(a.y_svg, b.y_svg)

\* The second driver's only sample lies where the first driver's path ends,
\* away from the minimum of either axis.
C18_Witness_SharedPoint ==
    /\ fig.returned = "Figure"
    /\ LET rows1 == Drawn1(fig)
           rows2 == Drawn2(fig)
       IN  /\ Len(rows1) = 2
           /\ Len(rows2) = 1
           /\ rows1[2].x = rows2[1].x
           /\ rows1[2].y = rows2[1].y
           /\ rows1[1].x_norm.n = 0
           /\ rows1[1].y_norm.n = 0
           /\ rows2[1].x_norm.n # 0
           /\ rows2[1].y_norm.n # 0
           /\ rows2[1].x_svg = rows1[2].x_svg

\* C20: every drawn sample has x_canvas = x_norm * canvas_width +
\* canvas_x_offset and y_canvas = y_norm * canvas_height + canvas_y_offset
\* with x_norm and y_norm in [0, 1], and so lies inside the view box the
\* caller passed (3500 x 2000 at the origin when the circuit has none).
C20_InsideCanvas ==
    \A f \in Figures : \A row \in PlotRows(f) :
        LET canvas_x_offset == svg_viewbox[1]
            canvas_y_offset == svg_viewbox[2]
            canvas_width == svg_viewbox[3]
            canvas_height == svg_viewbox[4]
            Zero == Frac(0, 1)
            One == Frac(1, 1)
        IN  /\ row.x_norm.d > 0 /\ row.y_norm.d > 0
            /\ row.x_svg.d > 0 /\ row.y_svg.d > 0
            /\ row.x_svg.n * row.x_norm.d = (row.x_norm.n * canvas_width + canvas_x_offset * row.x_norm.d) * row.x_svg.d
            /\ row.y_svg.n * row.y_norm.d = (row.y_norm.n * canvas_height + canvas_y_offset * row.y_norm.d) * row.y_svg.d
            /\ FracLe(Zero, row.x_norm) /\ FracLe(row.x_norm, One)
            /\ FracLe(Zero, row.y_norm) /\ FracLe(row.y_norm, One)
            /\ FracLe(Frac(canvas_x_offset, 1), row.x_svg)
            /\ FracLe(row.x_svg, Frac(canvas_x_offset + canvas_width, 1))
            /\ FracLe(Frac(canvas_y_offset, 1), row.y_svg)
            /\ FracLe(row.y_svg, Frac(canvas_y_offset + canvas_height, 1))
            /\ svg_viewbox \in {CIRCUIT_VIEWBOX[k] : k \in DOMAIN CIRCUIT_VIEWBOX} \cup {<<0, 0, 3500, 2000>>}

\* On the canvas of Suzuka (taller than wide) a sample is drawn at half the
\* width and half the height, another on the right edge, another at the
\* origin.
C20_Witness_MidCanvas ==
    /\ fig.returned = "Figure"
    /\ svg_viewbox = <<0, 0, 2892, 3117>>
    /\ LET rows == PlotRows(fig)
       IN  /\ \E row \in rows : FracEq(row.x_svg, Frac(1446, 1)) /\ FracEq(row.y_svg, Frac(3117, 2))
           /\ \E row \in rows : FracEq(row.x_svg, Frac(2892, 1))
           /\ \E row \in rows : row.x_svg.n = 0 /\ row.y_svg.n = 0

\* ------------------------------------------------------------- rendering
\* The colour the segment from row i - 1 to row i of a driver's path shows:
\* that of the last trace added over it.
TracesOver(traces, driver, i) ==
    SelectSeq(traces, LAMBDA t : t.path = driver /\ t.first <= i - 1 /\ i <= t.last)
SegmentColor(traces, driver, i) ==
    LET over == TracesOver(traces, driver, i) IN over[Len(over)].color
\* The colour assigned to a driver of the figure.
AssignedColor(f, color_map, driver) ==
    IF driver = f.d1[1].driver
    THEN Get(color_map, driver, DefaultColor1)
    ELSE Get(color_map, driver, DefaultColor2)

\* C21: on each driver's path of a returned figure, the segment that ends at
\* sample i (i >= 1, the second row onwards) is drawn in the colour assigned
\* to the driver that faster_driver names at sample i, whatever the colour
\* map.
C21_SegmentsColouredByFaster ==
    fig.returned = "Figure" =>
        LET plot1 == Drawn1(fig)
            plot2 == Drawn2(fig)
        IN  \A color_map \in ColorMaps :
                LET traces == Traces(fig, color_map, svg_viewbox, tie_order)
                IN  /\ \A i \in 2..Len(plot1) :
                           SegmentColor(traces, plot1[1].driver, i) = AssignedColor(fig, color_map, plot1[i].faster_driver)
                    /\ \A i \in 2..Len(plot2) :
                           SegmentColor(traces, plot2[1].driver, i) = AssignedColor(fig, color_map, plot2[i].faster_driver)

\* ------------------------------------------------------------- purity
\* C22: a call of the comparison or of the normalization leaves the frames
\* the caller passed as they were (same rows in the same order, same
\* columns), and two calls of one operation on the same frames return equal
\* results, whatever was called in between.
C22_PureFunctions ==
    /\ \A i \in 1..Len(calls) : calls[i].after = calls[i].before
    /\ \A i, j \in 1..Len(calls) :
           (calls[i].op = calls[j].op /\ calls[i].arg = calls[j].arg) =>
               calls[i].result = calls[j].result

\* The plot was called twice on frames given out of order, with the
\* comparison called in between, and returned a figure.
C22_Witness_CalledAgain ==
    /\ Len(calls) = 3
    /\ calls[1].op = "plot" /\ calls[2].op = "compare" /\ calls[3].op = "plot"
    /\ calls[3].result.returned = "Figure"
    /\ Len(Frame(location_data_dict, 1)) = 2
    /\ Frame(location_data_dict, 1)[1].date > Frame(location_data_dict, 1)[2].date

\* ------------------------------------------------------------- fetching
\* A request was answered with a status below 400.
Succeeded(k) == responses[k].kind = "Response" /\ responses[k].status_code < 400
FirstSuccess == CHOOSE k \in 1..Len(responses) : Succeeded(k) /\ \A j \in 1..(k - 1) : ~Succeeded(j)
\* The call returned the rows of the first successful response, or nothing.
ReturnedDataOrEmpty ==
    /\ fetched.state = "returned"
    /\ \/ fetched.value = DataFrame({}, <<>>)
       \/ /\ \E k \in 1..Len(responses) : Succeeded(k)
          /\ fetched.value.rows = responses[FirstSuccess].body.rows
          /\ Len(fetched.value.rows) > 0
\* The two ways the call ends with an exception: the URL could not be
\* prepared (no request was sent), or the last response was a success whose
\* body is not JSON rows.
RaisedBeforeRequest ==
    /\ BASE_URL = "None"
    /\ Len(responses) = 0
    /\ fetched.raised = "RequestException"
RaisedOnBody ==
    /\ Len(responses) > 0
    /\ Succeeded(Len(responses))
    /\ responses[Len(responses)].body.kind # "rows"
    /\ fetched.raised = "ValueError"

\* C23 (as stated): whatever the server answers, fetch_data ends by
\* returning, having sent at most max_retries requests, with the data of
\* the first successful response or an empty result, and no exception.
C23_AlwaysReturns ==
    <>(/\ ReturnedDataOrEmpty
       /\ Len(responses) <= max_retries
       /\ fetched.raised = "none")

\* C23 (amended): fetch_data always ends, having sent at most max_retries
\* requests; it returns the data of the first successful response or an
\* empty result, or it raises: a request exception when BASE_URL is unset
\* (before any request), a ValueError when a successful response's body is
\* not JSON rows.  No exception of a request itself reaches the caller.
C23_EndsWithinRetries ==
    <>(/\ fetched.state \in {"returned", "raised"}
       /\ Len(responses) <= max_retries
       /\ fetched.state = "returned" => ReturnedDataOrEmpty /\ fetched.raised = "none"
       /\ fetched.state = "raised" => RaisedBeforeRequest \/ RaisedOnBody)

\* The last allowed request succeeded after a timeout and a 504.
C23_Witness_ThirdAttemptSucceeds ==
    /\ max_retries = 3
    /\ Len(responses) = 3
    /\ responses[1].kind = "Timeout"
    /\ responses[2].status_code = 504
    /\ fetched.state = "returned"
    /\ fetched.value.rows = <<[meeting_key |-> 2]>>
    /\ Len(messages) = 2

\* C24: a further request follows only a timeout or a 504 response; any
\* other HTTP error and any network error is the last response, after which
\* the call has returned an empty result, whatever attempts remain.
C24_RetriesOnlyTimeoutAnd504 ==
    \A k \in 1..Len(responses) :
        /\ k < Len(responses) =>
               \/ responses[k].kind = "Timeout"
               \/ responses[k].kind = "Response" /\ responses[k].status_code = 504
        /\ (\/ responses[k].kind = "RequestException"
            \/ /\ responses[k].kind = "Response"
               /\ responses[k].status_code >= 400
               /\ responses[k].status_code # 504) =>
               /\ k = Len(responses)
               /\ fetched.state = "returned"
               /\ fetched.value = DataFrame({}, <<>>)

\* A 422 on the second of three attempts ended the call.
C24_Witness_422WithAttemptsLeft ==
    /\ max_retries = 3
    /\ Len(responses) = 2
    /\ responses[1].status_code = 504
    /\ responses[2].status_code = 422
    /\ fetched.state = "returned"
    /\ messages = <<"warning: Server timeout", "error: HTTP Error 422">>

\* ------------------------------------------------------------- first sample
\* The first row of a frame names the opponent with a delta of zero.
OpponentAtStart(path, opponent) == path[1].time_delta = 0 /\ path[1].faster_driver = opponent
\* The colour of the trace drawn over a driver's whole path.
BaseColor(traces, driver) ==
    LET whole == SelectSeq(traces, LAMBDA t : t.path = driver /\ t.first = 1) IN whole[1].color

UniqueStart(path) == Len(path) = 1 \/ path[1].date < path[2].date
\* The base line of a driver's drawn frame has the opponent's colour.
BaseLineOfOpponent(plot, driver, opponent) ==
    \A color_map \in ColorMaps :
        LET own == AssignedColor(fig, color_map, driver)
            other == AssignedColor(fig, color_map, opponent)
        IN  BaseTrace(plot, driver, own, other).color = other

====
